---- MODULE Spec2Model ----
(***************************************************************************)
(* Lokeshen: the native SpatiaLite adapter (ExpoSpatialiteModule.kt), the  *)
(* React session provider (ExpoSpatialiteProvider.tsx) and the Drizzle     *)
(* adapter (DrizzleAdapter.ts), as state machines over one engine          *)
(* connection.                                                             *)
(*                                                                         *)
(* The engine (org.spatialite.database.SQLiteDatabase) is not part of the  *)
(* repository.  It is modelled by the contract of the Android SQLite API   *)
(* it implements: transactions nest on a per-connection stack, the         *)
(* outermost endTransaction commits when every level was marked successful *)
(* and rolls back otherwise, and the text BEGIN / COMMIT / ROLLBACK given  *)
(* to execSQL is applied to that same stack.                               *)
(***************************************************************************)
EXTENDS Integers, Sequences, FiniteSets, TLC

(***************************************************************************)
(* Bounds of the model.                                                    *)
(***************************************************************************)
MaxConns == 2
MaxTxDepth == 1
MaxRow == 1

NoConnection == 0

Rows == 1..MaxRow

MemoryPath == ":memory:"
NoPath == "null"
Files == {"a.db", "b.db"}

VARIABLES
    database,       \* ExpoSpatialiteModule.database: the held handle, or NoConnection
    databasePath,   \* ExpoSpatialiteModule.databasePath
    openConns,      \* engine connections opened by the adapter and not closed
    sess,           \* transaction stack and row view of the held connection
    durable,        \* committed rows of each database file
    files,          \* database files that exist on disk
    metaInits,      \* per file: how often InitSpatialMetaData ran on it
    lastCall        \* outcome of the latest native call

adapterVars == <<database, databasePath, openConns, sess, durable, files, metaInits>>

(***************************************************************************)
(* SQL statements, as far as the adapter and the engine tell them apart:   *)
(* the leading keyword, for PRAGMA whether the text holds '=', the row the *)
(* statement touches, and whether the engine rejects the text.             *)
(***************************************************************************)
NoStmt == [kw |-> "none", eq |-> FALSE, row |-> 0, bad |-> FALSE]

Stmt(kw, eq, row, bad) == [kw |-> kw, eq |-> eq, row |-> row, bad |-> bad]

StmtsOver(rows) ==
    {Stmt("SELECT", FALSE, 0, b) : b \in BOOLEAN}
    \cup {Stmt("INSERT", FALSE, r, FALSE) : r \in rows}
    \cup {Stmt("DELETE", FALSE, r, FALSE) : r \in rows}
    \cup {Stmt("PRAGMA", e, 0, b) : e \in BOOLEAN, b \in BOOLEAN}
    \cup {Stmt("CREATE", FALSE, 0, b) : b \in BOOLEAN}
    \cup {Stmt(k, FALSE, 0, FALSE) : k \in {"BEGIN", "COMMIT", "ROLLBACK"}}

\* `SELECT AddGeometryColumn(...)`, `SELECT CreateSpatialIndex(...)`: the text
\* MigrationHelper.addSpatialIndex and the onInit bootstrap hand to
\* executeStatement, which the engine accepts.
SpatialSetupCall == Stmt("SELECT", FALSE, 0, FALSE)

\* The statements of StmtsOver and the other prefixes getStatementType names.
RoutedStmts ==
    StmtsOver(Rows)
    \cup {Stmt("UPDATE", FALSE, r, FALSE) : r \in Rows}
    \cup {Stmt("WITH", FALSE, 0, b) : b \in BOOLEAN}

TxControl == {"BEGIN", "COMMIT", "ROLLBACK"}

\* getStatementType that does not know the WITH prefix.
GetStatementType_NoWith(s) ==
    CASE s.kw = "SELECT" -> "QUERY"
      [] s.kw \in {"INSERT", "UPDATE", "DELETE"} -> "MODIFY"
      [] s.kw = "PRAGMA" -> IF s.eq THEN "PRAGMA_SET" ELSE "QUERY"
      [] OTHER -> "OTHER"

\* getStatementType: the routing class of a statement text.
GetStatementType(s) ==
    CASE s.kw \in {"SELECT", "WITH"} -> "QUERY"
      [] s.kw \in {"INSERT", "UPDATE", "DELETE"} -> "MODIFY"
      [] s.kw = "PRAGMA" -> IF s.eq THEN "PRAGMA_SET" ELSE "QUERY"
      [] OTHER -> "OTHER"

(***************************************************************************)
(* The engine session of the held connection.                              *)
(*   stack : open transactions, innermost last                             *)
(*   base  : rows committed on this connection's database                  *)
(*   view  : rows the connection sees (base plus uncommitted changes)      *)
(*   file  : the database the connection is on                             *)
(***************************************************************************)
NoSession == [stack |-> <<>>, base |-> {}, view |-> {}, file |-> NoPath]

NewTx == [marked |-> FALSE, childFailed |-> FALSE]

Top(st) == st[Len(st)]
Pop(st) == SubSeq(st, 1, Len(st) - 1)

Ran(s, ch) == [s |-> s, thrown |-> FALSE, changes |-> ch]
Threw(s) == [s |-> s, thrown |-> TRUE, changes |-> 0]

\* SQLiteDatabase.beginTransaction
BeginTransaction(s) ==
    IF Len(s.stack) > 0 /\ Top(s.stack).marked
    THEN Threw(s)
    ELSE Ran([s EXCEPT !.stack = Append(@, NewTx)], 0)

\* SQLiteDatabase.setTransactionSuccessful
SetTransactionSuccessful(s) ==
    IF Len(s.stack) = 0 \/ Top(s.stack).marked
    THEN Threw(s)
    ELSE Ran([s EXCEPT !.stack[Len(s.stack)].marked = TRUE], 0)

\* SQLiteDatabase.endTransaction
EndTransaction(s) ==
    IF Len(s.stack) = 0
    THEN Threw(s)
    ELSE LET top == Top(s.stack)
             successful == top.marked /\ ~top.childFailed
             rest == Pop(s.stack)
         IN  IF Len(rest) > 0
             THEN Ran([s EXCEPT !.stack =
                        IF successful THEN rest
                        ELSE [rest EXCEPT ![Len(rest)].childFailed = TRUE]], 0)
             ELSE IF successful
                  THEN Ran([s EXCEPT !.stack = rest, !.base = s.view], 0)
                  ELSE Ran([s EXCEPT !.stack = rest, !.view = s.base], 0)

\* A data change outside any transaction is committed at once.
Autocommit(s) == IF Len(s.stack) = 0 THEN [s EXCEPT !.base = s.view] ELSE s

\* SQLiteDatabase.execSQL
ExecSQL(s, stmt) ==
    CASE stmt.bad -> Threw(s)
      [] stmt.kw = "BEGIN" -> BeginTransaction(s)
      [] stmt.kw = "COMMIT" ->
            LET m == SetTransactionSuccessful(s)
            IN  IF m.thrown THEN m ELSE EndTransaction(m.s)
      [] stmt.kw = "ROLLBACK" -> EndTransaction(s)
      [] stmt.kw = "INSERT" ->
            IF stmt.row \in s.view
            THEN Threw(s)
            ELSE Ran(Autocommit([s EXCEPT !.view = @ \cup {stmt.row}]), 1)
      [] stmt.kw = "DELETE" ->
            Ran(Autocommit([s EXCEPT !.view = @ \ {stmt.row}]),
                IF stmt.row \in s.view THEN 1 ELSE 0)
      [] stmt.kw = "UPDATE" -> Ran(s, IF stmt.row \in s.view THEN 1 ELSE 0)
      [] OTHER -> Ran(s, 0)

(***************************************************************************)
(* Results of native calls.                                                *)
(***************************************************************************)
Result(op, stmt, ok, err, n) ==
    [op |-> op, stmt |-> stmt, ok |-> ok, err |-> err, count |-> n]

NoCall == Result("none", NoStmt, TRUE, "none", 0)

NotInitialized == "Database not initialized"
WrongRoute == "wrong execute method"
EngineError == "engine error"

\* The committed rows of a file follow the base of the connection held on it.
Persist(s) == IF s.file \in Files THEN [durable EXCEPT ![s.file] = s.base] ELSE durable

(***************************************************************************)
(* executeStatement, the transaction bracket around the statement:         *)
(* beginTransaction; try { execSQL; setTransactionSuccessful }             *)
(* finally { endTransaction }.  rowsAffected is read from changes() only   *)
(* on the path that binds parameters.                                      *)
(***************************************************************************)
\* The bracket with endTransaction on the success path only (no finally).
StatementBracket_NoFinally(s, stmt, withParams) ==
    LET b == BeginTransaction(s)
    IN  IF b.thrown
        THEN [s |-> s, ok |-> FALSE, count |-> 0]
        ELSE LET x == ExecSQL(b.s, stmt)
                 m == IF x.thrown THEN x ELSE SetTransactionSuccessful(x.s)
                 e == IF m.thrown THEN m ELSE EndTransaction(m.s)
             IN  [s |-> e.s, ok |-> ~e.thrown, count |-> 0]

StatementBracket(s, stmt, withParams) ==
    LET b == BeginTransaction(s)
    IN  IF b.thrown
        THEN [s |-> s, ok |-> FALSE, count |-> 0]
        ELSE LET x == ExecSQL(b.s, stmt)
                 m == IF x.thrown THEN x ELSE SetTransactionSuccessful(x.s)
                 e == EndTransaction(m.s)
                 modify == GetStatementType(stmt) = "MODIFY"
             IN  [s |-> e.s,
                  ok |-> ~m.thrown /\ ~e.thrown,
                  count |-> IF withParams
                            THEN (IF modify THEN x.changes ELSE 0)
                            ELSE (IF modify THEN -1 ELSE 0)]

\* executeStatement that closes the connection when the statement fails.
ExecuteStatement_CloseOnError(stmt, withParams) ==
    IF database = NoConnection
    THEN /\ lastCall' = Result("executeStatement", stmt, FALSE, NotInitialized, 0)
         /\ UNCHANGED adapterVars
    ELSE LET r == StatementBracket(sess, stmt, withParams)
             failed == GetStatementType(stmt) = "QUERY" \/ ~r.ok
         IN  /\ sess' = IF failed THEN NoSession ELSE r.s
             /\ durable' = IF failed THEN durable ELSE Persist(r.s)
             /\ database' = IF failed THEN NoConnection ELSE database
             /\ databasePath' = IF failed THEN NoPath ELSE databasePath
             /\ openConns' = IF failed THEN openConns \ {database} ELSE openConns
             /\ lastCall' = IF failed
                            THEN Result("executeStatement", stmt, FALSE, EngineError, 0)
                            ELSE Result("executeStatement", stmt, TRUE, "none", r.count)
             /\ UNCHANGED <<files, metaInits>>

\* AsyncFunction("executeStatement")
ExecuteStatement(stmt, withParams) ==
    IF database = NoConnection
    THEN /\ lastCall' = Result("executeStatement", stmt, FALSE, NotInitialized, 0)
         /\ UNCHANGED adapterVars
    ELSE IF GetStatementType(stmt) = "QUERY"
    THEN /\ lastCall' = Result("executeStatement", stmt, FALSE, WrongRoute, 0)
         /\ UNCHANGED adapterVars
    ELSE LET r == StatementBracket(sess, stmt, withParams)
         IN  /\ sess' = r.s
             /\ durable' = Persist(r.s)
             /\ lastCall' = IF r.ok
                            THEN Result("executeStatement", stmt, TRUE, "none", r.count)
                            ELSE Result("executeStatement", stmt, FALSE, EngineError, 0)
             /\ UNCHANGED <<database, databasePath, openConns, files, metaInits>>

\* AsyncFunction("executeQuery")
ExecuteQuery(stmt) ==
    IF database = NoConnection
    THEN /\ lastCall' = Result("executeQuery", stmt, FALSE, NotInitialized, 0)
         /\ UNCHANGED adapterVars
    ELSE IF GetStatementType(stmt) = "MODIFY"
    THEN /\ lastCall' = Result("executeQuery", stmt, FALSE, WrongRoute, 0)
         /\ UNCHANGED adapterVars
    ELSE /\ lastCall' = IF stmt.bad
                        THEN Result("executeQuery", stmt, FALSE, EngineError, 0)
                        ELSE Result("executeQuery", stmt, TRUE, "none",
                                    IF stmt.kw = "SELECT" THEN Cardinality(sess.view) ELSE 0)
         /\ UNCHANGED adapterVars

\* executePragmaQuery without the null check: database?.rawQuery yields no rows.
ExecutePragmaQuery_NoGuard(stmt) ==
    /\ lastCall' = IF stmt.bad /\ database # NoConnection
                   THEN Result("executePragmaQuery", stmt, FALSE, EngineError, 0)
                   ELSE Result("executePragmaQuery", stmt, TRUE, "none", 0)
    /\ UNCHANGED adapterVars

\* AsyncFunction("executePragmaQuery")
ExecutePragmaQuery(stmt) ==
    IF database = NoConnection
    THEN /\ lastCall' = Result("executePragmaQuery", stmt, FALSE, NotInitialized, 0)
         /\ UNCHANGED adapterVars
    ELSE /\ lastCall' = IF stmt.bad
                        THEN Result("executePragmaQuery", stmt, FALSE, EngineError, 0)
                        ELSE Result("executePragmaQuery", stmt, TRUE, "none", 0)
         /\ UNCHANGED adapterVars

\* closeDatabase that insists on a held connection (database!!.close()).
CloseDatabase_Strict ==
    IF database = NoConnection
    THEN /\ lastCall' = Result("closeDatabase", NoStmt, FALSE, NotInitialized, 0)
         /\ UNCHANGED adapterVars
    ELSE /\ openConns' = openConns \ {database}
         /\ database' = NoConnection
         /\ databasePath' = NoPath
         /\ sess' = NoSession
         /\ lastCall' = Result("closeDatabase", NoStmt, TRUE, "none", 0)
         /\ UNCHANGED <<durable, files, metaInits>>

\* AsyncFunction("closeDatabase")
CloseDatabase ==
    /\ openConns' = openConns \ {database}
    /\ database' = NoConnection
    /\ databasePath' = NoPath
    /\ sess' = NoSession
    /\ lastCall' = Result("closeDatabase", NoStmt, TRUE, "none", 0)
    /\ UNCHANGED <<durable, files, metaInits>>

(***************************************************************************)
(* initDatabase.  fault names the step that throws, if any:                *)
(*   mkdirs : the parent directory cannot be created (line 95)             *)
(*   open   : openOrCreateDatabase / openDatabase throws (lines 72, 116)   *)
(*   probe  : the spatialite_version() probe throws (line 136)             *)
(* recovered says that handleLocaleConflict found a locale conflict on an  *)
(* existing file and deleted it.                                           *)
(***************************************************************************)
Faults == {"none", "mkdirs", "open", "probe"}

\* The connection the engine opens next: one that is not open.
NewConn == CHOOSE c \in 1..(Cardinality(openConns) + 1) : c \notin openConns

\* isNewDatabase with the file-existence check left out.
IsNewDatabase_Always(dbPath, recovered) == TRUE

\* isNewDatabase (lines 66-109): an in-memory database, a file that does not
\* exist, or a file that handleLocaleConflict deleted.
IsNewDatabase(dbPath, recovered) ==
    IF dbPath = MemoryPath THEN TRUE
    ELSE IF dbPath \notin files THEN TRUE
    ELSE recovered

\* execSQL("SELECT InitSpatialMetaData();") on a file on which it ran n times:
\* it fails when the metadata catalog is already there.
InitSpatialMetaData(n) == [inits |-> n + 1, thrown |-> n > 0]

\* Lines 119-128: the InitSpatialMetaData block sits in the branch of a file
\* path, after openDatabase; the ':memory:' branch (lines 69-73) has none.
RunsInitSpatialMetaData(dbPath, recovered) ==
    dbPath # MemoryPath /\ IsNewDatabase(dbPath, recovered)

InitDatabase(dbPath, fault, recovered) ==
    LET isMem == dbPath = MemoryPath
        files1 == IF recovered THEN files \ {dbPath} ELSE files
        durable1 == IF recovered THEN [durable EXCEPT ![dbPath] = {}] ELSE durable
        meta1 == IF recovered THEN [metaInits EXCEPT ![dbPath] = 0] ELSE metaInits
        \* lines 121-128: the failure of InitSpatialMetaData is caught and logged
        meta2 == IF RunsInitSpatialMetaData(dbPath, recovered)
                 THEN [meta1 EXCEPT ![dbPath] = InitSpatialMetaData(@).inits]
                 ELSE meta1
        rows == IF isMem THEN {} ELSE durable1[dbPath]
    IN  CASE fault = "mkdirs" ->
               /\ lastCall' = Result("initDatabase", NoStmt, FALSE, "mkdirs", 0)
               /\ UNCHANGED adapterVars
          [] fault = "open" ->
               /\ databasePath' = IF isMem THEN dbPath ELSE databasePath
               /\ files' = files1
               /\ durable' = durable1
               /\ metaInits' = meta1
               /\ lastCall' = Result("initDatabase", NoStmt, FALSE, "open", 0)
               /\ UNCHANGED <<database, openConns, sess>>
          [] OTHER ->
               /\ database' = NewConn
               /\ openConns' = openConns \cup {NewConn}
               /\ databasePath' = dbPath
               /\ files' = IF isMem THEN files ELSE files1 \cup {dbPath}
               /\ durable' = durable1
               /\ metaInits' = meta2
               /\ sess' = [stack |-> <<>>, base |-> rows, view |-> rows, file |-> dbPath]
               /\ lastCall' = IF fault = "probe"
                              THEN Result("initDatabase", NoStmt, FALSE, "probe", 0)
                              ELSE Result("initDatabase", NoStmt, TRUE, "none", 0)

(***************************************************************************)
(* ExpoSpatialiteDrizzle.transaction(fn) (DrizzleAdapter.ts):              *)
(*     await executeStatement("BEGIN");                                    *)
(*     try { result = await fn(this); await executeStatement("COMMIT");    *)
(*           return result }                                               *)
(*     catch (error) { await executeStatement("ROLLBACK"); throw error }   *)
(* Each caller is a task; a task has one native call in flight at a time.  *)
(*   pc        : idle, fn, commit, rollback, resolved, rejected            *)
(*   fn        : none, running, resolved, threw                            *)
(*   wrote     : rows fn inserted through executeStatement                 *)
(*   caught    : the error the catch block holds                           *)
(*   err       : the error transaction() rejected with                     *)
(***************************************************************************)
MaxTx == 1

TxIds == 1..MaxTx

VARIABLE txn

(***************************************************************************)
(* State of the session provider (ExpoSpatialiteProvider.tsx and the       *)
(* variant in part_003) and of the JavaScript-to-native bridge.            *)
(***************************************************************************)
VARIABLES
    mounted,            \* a provider component instance is mounted
    variant,            \* which of the two provider sources is mounted
    useSuspense,        \* prop useSuspense of the mounted provider
    onError,            \* whether prop onError is supplied
    props,              \* (databaseName, assetSource, onInit) of the last render
    loading,            \* useState(true) of ExpoSpatialiteProviderNonSuspense
    error,              \* useState(null): whether an error is held
    databaseRef,        \* useRef(null): databaseRef.current
    setups,             \* the setup promises started so far
    nativeQueue,        \* native calls issued and not yet run, oldest first
    databaseInstance    \* module-level databaseInstance of the suspense path

providerVars == <<mounted, variant, useSuspense, onError, props, loading, error,
                  databaseRef, setups, nativeQueue, databaseInstance>>

(***************************************************************************)
(* State of the data-access layer (BaseModel, part_006): the tables behind *)
(* the connection as its statements see them, and the calls in flight.     *)
(***************************************************************************)
VARIABLES
    table,              \* per table: the stored value of each rowid, or Absent
    lastInsertRowid,    \* last_insert_rowid() of the connection
    modelCalls,            \* BaseModel calls: the await each is suspended at
    pager,              \* a findPaginated traversal: cursor, page, rows seen
    boot                \* an import followed by initDatabase: caller, inputs, files

modelVars == <<table, lastInsertRowid, modelCalls, pager, boot>>

(***************************************************************************)
(* State of the library helpers around the adapter: the path helper        *)
(* createDatabasePath as its callers use it, and the outcome of the        *)
(* provider's constructor.                                                 *)
(***************************************************************************)
VARIABLES
    pathLog,            \* the first and the latest path computed: arguments and text
    constructError,     \* the latest render of the provider threw in its constructor
    builder,            \* a QueryBuilder: its accumulated fields and what execute() emitted
    manager             \* the SpatialiteManager singleton and the calls in flight on it

libVars == <<pathLog, constructError, builder, manager>>

IdleTx == [pc |-> "idle", fn |-> "none", wrote |-> {}, begins |-> 0, commits |-> 0,
           rollbacks |-> 0, rollbackFailed |-> FALSE, caught |-> "none", err |-> "none"]

BeginStmt == Stmt("BEGIN", FALSE, 0, FALSE)
CommitStmt == Stmt("COMMIT", FALSE, 0, FALSE)
RollbackStmt == Stmt("ROLLBACK", FALSE, 0, FALSE)
InsertStmt(r) == Stmt("INSERT", FALSE, r, FALSE)

\* line 90: BEGIN is awaited outside the try block.
TxAfterBegin(t, ok) ==
    IF ok
    THEN [t EXCEPT !.pc = "fn", !.fn = "running", !.begins = @ + 1]
    ELSE [t EXCEPT !.pc = "rejected", !.err = "begin"]

\* line 92: a write of fn, through exec(sql, params, "run").
TxAfterWrite(t, r, ok, swallow) ==
    IF ok
    THEN [t EXCEPT !.wrote = @ \cup {r}]
    ELSE IF swallow
         THEN t
         ELSE [t EXCEPT !.pc = "rollback", !.fn = "threw", !.caught = "fn"]

\* COMMIT awaited after the try block: its failure is rethrown without ROLLBACK.
TxAfterCommit_OutsideTry(t, ok) ==
    IF ok
    THEN [t EXCEPT !.pc = "resolved", !.commits = @ + 1]
    ELSE [t EXCEPT !.pc = "rejected", !.commits = @ + 1, !.err = "commit"]

\* lines 93-94: COMMIT is awaited inside the try block.
TxAfterCommit(t, ok) ==
    IF ok
    THEN [t EXCEPT !.pc = "resolved", !.commits = @ + 1]
    ELSE [t EXCEPT !.pc = "rollback", !.commits = @ + 1, !.caught = "commit"]

\* lines 95-97: ROLLBACK is awaited before the caught error is rethrown.
TxAfterRollback(t, ok) ==
    IF ok
    THEN [t EXCEPT !.pc = "rejected", !.rollbacks = @ + 1, !.err = t.caught]
    ELSE [t EXCEPT !.pc = "rejected", !.rollbacks = @ + 1, !.err = "rollback",
                   !.rollbackFailed = TRUE]

TxBegin(i) ==
    /\ txn[i].pc = "idle"
    /\ ExecuteStatement(BeginStmt, FALSE)
    /\ txn' = [txn EXCEPT ![i] = TxAfterBegin(@, lastCall'.ok)]
    /\ UNCHANGED <<providerVars, modelVars, libVars>>

FnWrite(i) ==
    \E r \in Rows, swallow \in BOOLEAN :
        /\ txn[i].pc = "fn"
        /\ ExecuteStatement(InsertStmt(r), TRUE)
        /\ txn' = [txn EXCEPT ![i] = TxAfterWrite(@, r, lastCall'.ok, swallow)]
        /\ UNCHANGED <<providerVars, modelVars, libVars>>

FnResolve(i) ==
    /\ txn[i].pc = "fn"
    /\ txn' = [txn EXCEPT ![i].pc = "commit", ![i].fn = "resolved"]
    /\ UNCHANGED <<adapterVars, lastCall, providerVars, modelVars, libVars>>

FnThrow(i) ==
    /\ txn[i].pc = "fn"
    /\ txn' = [txn EXCEPT ![i].pc = "rollback", ![i].fn = "threw", ![i].caught = "fn"]
    /\ UNCHANGED <<adapterVars, lastCall, providerVars, modelVars, libVars>>

TxCommit(i) ==
    /\ txn[i].pc = "commit"
    /\ ExecuteStatement(CommitStmt, FALSE)
    /\ txn' = [txn EXCEPT ![i] = TxAfterCommit(@, lastCall'.ok)]
    /\ UNCHANGED <<providerVars, modelVars, libVars>>

TxRollback(i) ==
    /\ txn[i].pc = "rollback"
    /\ ExecuteStatement(RollbackStmt, FALSE)
    /\ txn' = [txn EXCEPT ![i] = TxAfterRollback(@, lastCall'.ok)]
    /\ UNCHANGED <<providerVars, modelVars, libVars>>

\* Callers outside any transaction(fn), on the same module-level connection.
OutsideStmts == {InsertStmt(r) : r \in Rows} \cup {Stmt("CREATE", FALSE, 0, TRUE)}

OutsideStatement ==
    \E s \in OutsideStmts :
        /\ ExecuteStatement(s, TRUE)
        /\ UNCHANGED <<txn, providerVars, modelVars, libVars>>

OutsideClose ==
    /\ database # NoConnection
    /\ CloseDatabase
    /\ UNCHANGED <<txn, providerVars, modelVars, libVars>>

OutsideInit ==
    /\ database = NoConnection
    /\ Cardinality(openConns) < MaxConns
    /\ InitDatabase("a.db", "none", FALSE)
    /\ UNCHANGED <<txn, providerVars, modelVars, libVars>>

(***************************************************************************)
(* importAssetDatabaseAsync: copies the asset to dbPath unless the file    *)
(* exists and forceOverwrite is false.  fault says that mkdirs or the copy *)
(* throws.                                                                 *)
(***************************************************************************)
AssetRows == {1}

\* importAssetDatabaseAsync that copies whether or not the file exists.
ImportAssetDatabaseAsync_Overwrite(dbPath, forceOverwrite, fault) ==
    IF fault
    THEN /\ lastCall' = Result("importAssetDatabaseAsync", NoStmt, FALSE, "copy", 0)
         /\ UNCHANGED adapterVars
    ELSE /\ files' = files \cup {dbPath}
         /\ durable' = [durable EXCEPT ![dbPath] = AssetRows]
         /\ metaInits' = [metaInits EXCEPT ![dbPath] = 0]
         /\ lastCall' = Result("importAssetDatabaseAsync", NoStmt, TRUE, "none", 0)
         /\ UNCHANGED <<database, databasePath, openConns, sess>>

\* AsyncFunction("importAssetDatabaseAsync"): an existing destination is kept
\* unless forceOverwrite (lines 193-200), before anything is copied.
ImportAssetDatabaseAsync(dbPath, forceOverwrite, fault) ==
    IF dbPath \in files /\ ~forceOverwrite
    THEN /\ lastCall' = Result("importAssetDatabaseAsync", NoStmt, TRUE, "none", 0)
         /\ UNCHANGED adapterVars
    ELSE IF fault
    THEN /\ lastCall' = Result("importAssetDatabaseAsync", NoStmt, FALSE, "copy", 0)
         /\ UNCHANGED adapterVars
    ELSE /\ files' = files \cup {dbPath}
         /\ durable' = [durable EXCEPT ![dbPath] = AssetRows]
         /\ metaInits' = [metaInits EXCEPT ![dbPath] = 0]
         /\ lastCall' = Result("importAssetDatabaseAsync", NoStmt, TRUE, "none", 0)
         /\ UNCHANGED <<database, databasePath, openConns, sess>>

(***************************************************************************)
(* The session provider.                                                   *)
(*                                                                         *)
(* A configuration is the part of the props the effect depends on.  The    *)
(* database path is createDatabasePath(databaseName), the databaseName     *)
(* itself, as no location is given.                                        *)
(*                                                                         *)
(* A setup is one run of setupDatabaseAsync (for the suspense path, of the *)
(* promise chain built by getDatabaseAsync).  Its pc is the await it is    *)
(* suspended at:                                                           *)
(*   chained  : waiting for the promise of the previous databaseInstance   *)
(*   close    : closeDatabase of the chain, issued                         *)
(*   download : Asset.fromModule(assetId).downloadAsync()                  *)
(*   import   : importAssetDatabaseAsync, issued                           *)
(*   init     : initDatabase, issued                                       *)
(*   onInit   : the caller's onInit hook                                   *)
(*   done / failed : the promise is fulfilled / rejected                   *)
(* reply is the outcome of the issued native call once it has run; live    *)
(* says that the setup was started by an effect of the component instance  *)
(* that is still mounted, so that its state setters take effect.           *)
(***************************************************************************)
MaxSetups == 2

SetupIds == 1..MaxSetups

TsxVariant == "ExpoSpatialiteProvider.tsx"
Part003Variant == "part_003"
Variants == {TsxVariant, Part003Variant}

\* The configurations the provider is given: a database imported from an
\* asset and set up by an onInit hook, and a plain database.
AssetConfig == [databaseName |-> "a.db", assetSource |-> TRUE, onInit |-> TRUE]
PlainConfig == [databaseName |-> "b.db", assetSource |-> FALSE, onInit |-> FALSE]
Configs == {AssetConfig, PlainConfig}
NoConfig == [databaseName |-> NoPath, assetSource |-> FALSE, onInit |-> FALSE]

NoSetup == [cfg |-> NoConfig, pc |-> "none", reply |-> "none", live |-> FALSE, prev |-> 0]
NoInstance == [cfg |-> NoConfig, promise |-> 0]

NativeCall(op, task, path) == [op |-> op, task |-> task, path |-> path]

\* The setup a next call of setup() or getDatabaseAsync() creates.
NextSetup == Cardinality({k \in SetupIds : setups[k].pc # "none"}) + 1

\* setupDatabaseAsync up to its first await: the pc it suspends at ...
SetupStartPc(cfg) == IF cfg.assetSource THEN "download" ELSE "init"

\* ... and the native call it has issued by then.
SetupStartCalls(cfg, k) ==
    IF cfg.assetSource THEN <<>> ELSE <<NativeCall("initDatabase", k, cfg.databaseName)>>

\* teardown(): closeDatabase() is issued; nothing waits for its reply.
TeardownCall == NativeCall("closeDatabase", 0, NoPath)

ProviderIdle ==
    /\ mounted = FALSE
    /\ variant = TsxVariant
    /\ useSuspense = FALSE
    /\ onError = FALSE
    /\ props = NoConfig
    /\ loading = TRUE
    /\ error = FALSE
    /\ databaseRef = NoPath
    /\ setups = [k \in SetupIds |-> NoSetup]
    /\ nativeQueue = <<>>
    /\ databaseInstance = NoInstance

\* getDatabaseAsync(cfg), called by the render of ExpoSpatialiteProviderSuspense.
GetDatabaseAsync(cfg) ==
    IF databaseInstance.promise # 0 /\ databaseInstance.cfg = cfg
    THEN UNCHANGED <<setups, nativeQueue, databaseInstance>>
    ELSE LET k == NextSetup
         IN  /\ setups' = [setups EXCEPT ![k] =
                    IF databaseInstance.promise # 0
                    THEN [cfg |-> cfg, pc |-> "chained", reply |-> "none", live |-> FALSE,
                          prev |-> databaseInstance.promise]
                    ELSE [cfg |-> cfg, pc |-> SetupStartPc(cfg), reply |-> "none",
                          live |-> FALSE, prev |-> 0]]
             /\ nativeQueue' = IF databaseInstance.promise # 0
                               THEN nativeQueue
                               ELSE nativeQueue \o SetupStartCalls(cfg, k)
             /\ databaseInstance' = [cfg |-> cfg, promise |-> k]

\* The effect of ExpoSpatialiteProviderNonSuspense: setup().
EffectSetup(cfg, pending) ==
    LET k == NextSetup
    IN  /\ setups' = [setups EXCEPT ![k] =
               [cfg |-> cfg, pc |-> SetupStartPc(cfg), reply |-> "none", live |-> TRUE,
                prev |-> 0]]
        /\ nativeQueue' = pending \o SetupStartCalls(cfg, k)
        /\ UNCHANGED databaseInstance

\* The first render of a provider.  onError with useSuspense throws in the
\* constructor, so nothing mounts.  The two sources differ in
\* ExpoSpatialiteProviderSuspense only, so the part_003 variant is mounted
\* with useSuspense.
\* The constructor without the check of lines 94-96.
Construct_NoCheck(oe, sus) == "rendered"

\* ExpoSpatialiteProvider, lines 94-96: onError with useSuspense throws.
Construct(oe, sus) == IF oe /\ sus THEN "threw" ELSE "rendered"

Mount ==
    \E cfg \in Configs, sus \in BOOLEAN, oe \in BOOLEAN, v \in Variants :
        /\ ~mounted
        /\ v = Part003Variant => sus
        /\ NextSetup <= MaxSetups
        /\ IF Construct(oe, sus) = "threw"
           THEN /\ constructError' = TRUE
                /\ UNCHANGED providerVars
           ELSE /\ constructError' = FALSE
                /\ mounted' = TRUE
                /\ variant' = v
                /\ useSuspense' = sus
                /\ onError' = oe
                /\ props' = cfg
                /\ loading' = TRUE
                /\ error' = FALSE
                /\ databaseRef' = NoPath
                /\ IF sus
                   THEN IF v = Part003Variant
                        THEN UNCHANGED <<setups, nativeQueue, databaseInstance>>
                        ELSE GetDatabaseAsync(cfg)
                   ELSE EffectSetup(cfg, nativeQueue)
        /\ UNCHANGED <<adapterVars, lastCall, txn, modelVars, pathLog, builder, manager>>

\* A render with a changed configuration.  Without suspense the cleanup of
\* the old effect runs (teardown(); databaseRef.current = null;
\* setLoading(true)) and then the new effect.
PropsChange ==
    \E cfg \in Configs :
        /\ mounted
        /\ cfg # props
        /\ NextSetup <= MaxSetups
        /\ props' = cfg
        /\ IF useSuspense
           THEN /\ IF variant = Part003Variant
                   THEN UNCHANGED <<setups, nativeQueue, databaseInstance>>
                   ELSE GetDatabaseAsync(cfg)
                /\ UNCHANGED <<loading, databaseRef>>
           ELSE /\ EffectSetup(cfg, Append(nativeQueue, TeardownCall))
                /\ databaseRef' = NoPath
                /\ loading' = TRUE
        /\ UNCHANGED <<mounted, variant, useSuspense, onError, error>>
        /\ UNCHANGED <<adapterVars, lastCall, txn, modelVars, libVars>>

\* The provider unmounts: the cleanup of the effect runs; the suspense
\* provider has no cleanup.
Unmount ==
    /\ mounted
    /\ mounted' = FALSE
    /\ setups' = [k \in SetupIds |-> [setups[k] EXCEPT !.live = FALSE]]
    /\ IF useSuspense
       THEN UNCHANGED <<nativeQueue, databaseRef, loading>>
       ELSE /\ nativeQueue' = Append(nativeQueue, TeardownCall)
            /\ databaseRef' = NoPath
            /\ loading' = TRUE
    /\ UNCHANGED <<variant, useSuspense, onError, props, error, databaseInstance>>
    /\ UNCHANGED <<adapterVars, lastCall, txn, modelVars, libVars>>

WithReply(k) ==
    IF k = 0 THEN setups
    ELSE [setups EXCEPT ![k].reply = IF lastCall'.ok THEN "ok" ELSE "err"]

\* The native module runs the oldest issued call and answers it.
NativeExec ==
    /\ nativeQueue # <<>>
    /\ LET h == Head(nativeQueue)
       IN  /\ CASE h.op = "closeDatabase" -> CloseDatabase
                [] h.op = "initDatabase" ->
                      \E fault \in Faults : InitDatabase(h.path, fault, FALSE)
                [] h.op = "importAssetDatabaseAsync" ->
                      \E fault \in BOOLEAN : ImportAssetDatabaseAsync(h.path, FALSE, fault)
           /\ setups' = WithReply(h.task)
    /\ nativeQueue' = Tail(nativeQueue)
    /\ UNCHANGED <<mounted, variant, useSuspense, onError, props, loading, error,
                   databaseRef, databaseInstance, txn, modelVars, libVars>>

\* A setup moves to its next await, issuing the given native calls.
Advance(k, pc, calls) ==
    /\ setups' = [setups EXCEPT ![k].pc = pc, ![k].reply = "none"]
    /\ nativeQueue' = nativeQueue \o calls
    /\ UNCHANGED <<mounted, loading, error, databaseRef>>

\* The promise of setup k settles.  In setup() of a live effect the
\* continuation runs databaseRef.current = dbPath; setLoading(false), or
\* setError(e); with an error held and no onError the render throws and React
\* unmounts the provider, which runs the cleanup of its effect.
Settle(k, ok) ==
    LET t == setups[k]
        crash == t.live /\ ~ok /\ ~onError
    IN  /\ setups' = [j \in SetupIds |->
               IF j = k
               THEN [t EXCEPT !.pc = IF ok THEN "done" ELSE "failed", !.reply = "none",
                              !.live = t.live /\ ~crash]
               ELSE [setups[j] EXCEPT !.live = setups[j].live /\ ~crash]]
        /\ databaseRef' = IF t.live /\ ok THEN t.cfg.databaseName
                          ELSE IF crash THEN NoPath ELSE databaseRef
        /\ loading' = IF t.live /\ ok THEN FALSE
                      ELSE IF crash THEN TRUE ELSE loading
        /\ error' = IF t.live /\ ~ok THEN TRUE ELSE error
        /\ mounted' = IF crash THEN FALSE ELSE mounted
        /\ nativeQueue' = IF crash THEN Append(nativeQueue, TeardownCall) ELSE nativeQueue

Resumable(k) ==
    CASE setups[k].pc \in {"close", "import", "init"} -> setups[k].reply # "none"
      [] setups[k].pc = "chained" -> setups[setups[k].prev].pc \in {"done", "failed"}
      [] OTHER -> FALSE

\* The JavaScript continuation of setup k after the promise it awaits settled.
Resume(k) ==
    /\ Resumable(k)
    /\ LET t == setups[k]
       IN  CASE t.pc = "chained" ->
                  IF setups[t.prev].pc = "done"
                  THEN Advance(k, "close", <<NativeCall("closeDatabase", k, NoPath)>>)
                  ELSE Settle(k, FALSE)
             [] t.pc = "close" ->
                  Advance(k, SetupStartPc(t.cfg), SetupStartCalls(t.cfg, k))
             [] t.pc = "import" ->
                  IF t.reply = "ok"
                  THEN Advance(k, "init", <<NativeCall("initDatabase", k, t.cfg.databaseName)>>)
                  ELSE Settle(k, FALSE)
             [] t.pc = "init" ->
                  IF t.reply = "ok"
                  THEN IF t.cfg.onInit THEN Advance(k, "onInit", <<>>) ELSE Settle(k, TRUE)
                  ELSE Settle(k, FALSE)
    /\ UNCHANGED <<variant, useSuspense, onError, props, databaseInstance>>
    /\ UNCHANGED <<adapterVars, lastCall, txn, modelVars, libVars>>

\* downloadAsync settles; on success importAssetDatabaseAsync is issued.
DownloadSettle(k) ==
    \E ok \in BOOLEAN :
        /\ setups[k].pc = "download"
        /\ IF ok
           THEN Advance(k, "import",
                        <<NativeCall("importAssetDatabaseAsync", k, setups[k].cfg.databaseName)>>)
           ELSE Settle(k, FALSE)
        /\ UNCHANGED <<variant, useSuspense, onError, props, databaseInstance>>
        /\ UNCHANGED <<adapterVars, lastCall, txn, modelVars, libVars>>

\* The onInit hook settles.
OnInitSettle(k) ==
    \E ok \in BOOLEAN :
        /\ setups[k].pc = "onInit"
        /\ Settle(k, ok)
        /\ UNCHANGED <<variant, useSuspense, onError, props, databaseInstance>>
        /\ UNCHANGED <<adapterVars, lastCall, txn, modelVars, libVars>>

\* What the provider renders: its children inside the context, or nothing.
ChildrenRendered ==
    /\ mounted
    /\ IF useSuspense
       THEN IF variant = Part003Variant
            THEN TRUE
            ELSE /\ databaseInstance.promise # 0
                 /\ setups[databaseInstance.promise].pc = "done"
       ELSE ~loading /\ (error => onError)

\* The setup started for the configuration that is mounted now.
CurrentSetup ==
    IF useSuspense
    THEN (IF variant = Part003Variant THEN 0 ELSE databaseInstance.promise)
    ELSE NextSetup - 1

(***************************************************************************)
(* Database paths.  A path string is kept as: whether it carries the       *)
(* file:// scheme, whether it starts at the root, and its segments (a      *)
(* trailing or doubled '/' names the same file).  A location or directory  *)
(* argument is undefined ("none"), relative, absolute, or a file:// URI.   *)
(***************************************************************************)
DocumentDirectory == <<"files">>

NoLocation == [kind |-> "none", dir |-> "", slash |-> FALSE]

Locations ==
    {NoLocation}
    \cup [kind : {"relative", "absolute", "fileUri"}, dir : {"data", "Spatialite"},
          slash : BOOLEAN]

Path(scheme, abs, segs) == [scheme |-> scheme, abs |-> abs, segs |-> segs]

\* createDatabasePath of expo-spatialite
CreateDatabasePath(name, directory) ==
    IF directory.kind \in {"absolute", "fileUri"}
    THEN Path(FALSE, TRUE, <<directory.dir, name>>)
    ELSE IF directory.kind = "relative"
    THEN Path(FALSE, TRUE, DocumentDirectory \o <<directory.dir, name>>)
    ELSE Path(FALSE, TRUE, DocumentDirectory \o <<"Spatialite", name>>)

\* createDatabasePath of expo-spatialite-room, which the app bootstrap imports
RoomCreateDatabasePath(name, directory) ==
    CASE directory.kind = "none" -> Path(FALSE, TRUE, DocumentDirectory \o <<name>>)
      [] directory.kind = "fileUri" ->
            Path(FALSE, TRUE, DocumentDirectory \o <<"file:", directory.dir, name>>)
      [] OTHER -> Path(FALSE, TRUE, DocumentDirectory \o <<directory.dir, name>>)

\* setupDatabaseAsync of ExpoSpatialiteProvider.tsx, lines 256-258
ProviderPath(name, location) ==
    IF location.kind = "none"
    THEN CreateDatabasePath(name, location)
    ELSE Path(location.kind = "fileUri", location.kind # "relative", <<location.dir, name>>)

\* The file a native call opens or writes: an absolute path as it is, any
\* other path under <filesDir>/Spatialite.
ResolveFile(path) ==
    IF path.abs /\ ~path.scheme
    THEN path.segs
    ELSE DocumentDirectory \o <<"Spatialite">>
         \o (IF path.scheme THEN <<"file:">> ELSE <<>>) \o path.segs

BootstrapCaller == "ContainerLayout"
BootstrapName == "kenya_wards.db"
BootstrapDirectory == [kind |-> "relative", dir |-> "data", slash |-> FALSE]

NoBoot == [who |-> "none", pc |-> "idle", name |-> "", location |-> NoLocation,
           imported |-> <<>>, opened |-> <<>>]

\* setupDatabaseAsync with an asset source: await importDatabaseFromAssetAsync(
\* databaseName, assetId, forceOverwrite, location).
SetupImport ==
    \E who \in Variants, name \in Files, location \in Locations :
        /\ boot.pc = "idle"
        /\ boot' = [who |-> who, pc |-> "imported", name |-> name, location |-> location,
                    imported |-> ResolveFile(CreateDatabasePath(name, location)),
                    opened |-> <<>>]
        /\ UNCHANGED <<adapterVars, lastCall, txn, providerVars, table, lastInsertRowid,
                       modelCalls, pager, libVars>>

\* ContainerLayout queryFn, step 1
BootstrapImport ==
    /\ boot.pc = "idle"
    /\ boot' = [who |-> BootstrapCaller, pc |-> "imported", name |-> BootstrapName,
                location |-> BootstrapDirectory,
                imported |-> ResolveFile(RoomCreateDatabasePath(BootstrapName,
                                                                BootstrapDirectory)),
                opened |-> <<>>]
    /\ UNCHANGED <<adapterVars, lastCall, txn, providerVars, table, lastInsertRowid,
                   modelCalls, pager, libVars>>

\* The path each caller hands to initDatabase after the import.
InitPath(b) ==
    CASE b.who = TsxVariant -> ProviderPath(b.name, b.location)
      [] b.who = Part003Variant -> CreateDatabasePath(b.name, b.location)
      [] OTHER -> RoomCreateDatabasePath(b.name, NoLocation)

\* await initDatabase(dbPath)
InitAfterImport ==
    /\ boot.pc = "imported"
    /\ boot' = [boot EXCEPT !.pc = "opened", !.opened = ResolveFile(InitPath(boot))]
    /\ UNCHANGED <<adapterVars, lastCall, txn, providerVars, table, lastInsertRowid,
                   modelCalls, pager, libVars>>

(***************************************************************************)
(* The data-access layer (BaseModel, part_006).  Each of its statements is *)
(* one executeStatement or executeQuery call, run by the native module as  *)
(* a whole; a BaseModel method is a chain of such calls with awaits in     *)
(* between, where calls of other callers may run.                          *)
(*                                                                         *)
(* A table maps the rowids 1..MaxId to the stored value of the row's data  *)
(* column (also the cursor field of findPaginated), or to Absent.  Values  *)
(* are ordered as the engine orders the texts "", "a", "b".                *)
(***************************************************************************)
MaxId == 3
MaxCallers == 2
MaxLimit == 2

Ids == 1..MaxId
CallerIds == 1..MaxCallers
Limits == 1..MaxLimit

TableNames == {"users", "profiles"}
Absent == "<absent>"
Values == {"", "a", "b"}

NoRow == [id |-> 0, val |-> Absent]
Row(id, v) == [id |-> id, val |-> v]

EmptyTable == [id \in Ids |-> Absent]

IdleCall == [op |-> "none", pc |-> "idle", tbl |-> "users", id |-> 0, data |-> Absent,
             got |-> 0, result |-> NoRow]

NoPager == [open |-> FALSE, limit |-> 0, cursor |-> Absent, page |-> <<>>, seen |-> {}]

ModelIdle ==
    /\ table = [t \in TableNames |-> EmptyTable]
    /\ lastInsertRowid = 0
    /\ modelCalls = [c \in CallerIds |-> IdleCall]
    /\ pager = NoPager
    /\ boot = NoBoot

RowIds(tbl) == {id \in Ids : tbl[id] # Absent}

SetMax(S) == CHOOSE x \in S : \A y \in S : y <= x

\* The rowid the engine gives to an inserted row: one more than the largest.
NextRowid(tbl) == SetMax(RowIds(tbl) \cup {0}) + 1

\* SELECT * FROM t WHERE pk = ?  ->  result.data[0] || null
FindById(tbl, id) ==
    IF id \in Ids /\ tbl[id] # Absent THEN Row(id, tbl[id]) ELSE NoRow

\* create, line 100: await executeStatement(INSERT ...).
CreateInsert(c) ==
    \E t \in TableNames, v \in Values :
        /\ modelCalls[c].pc = "idle"
        /\ NextRowid(table[t]) <= MaxId
        /\ table' = [table EXCEPT ![t][NextRowid(table[t])] = v]
        /\ lastInsertRowid' = NextRowid(table[t])
        /\ modelCalls' = [modelCalls EXCEPT ![c] =
               [IdleCall EXCEPT !.op = "create", !.pc = "lastId", !.tbl = t,
                                !.id = NextRowid(table[t]), !.data = v]]
        /\ UNCHANGED <<pager, adapterVars, lastCall, txn, providerVars, boot, libVars>>

\* create, lines 103-104: await executeQuery("SELECT last_insert_rowid() as id").
CreateLastId(c) ==
    /\ modelCalls[c].op = "create"
    /\ modelCalls[c].pc = "lastId"
    /\ modelCalls' = [modelCalls EXCEPT ![c].pc = "find", ![c].got = lastInsertRowid]
    /\ UNCHANGED <<table, lastInsertRowid, pager, adapterVars, lastCall, txn, providerVars, boot, libVars>>

\* create, lines 106-110: findById(id); throws when nothing is found.
CreateFind(c) ==
    /\ modelCalls[c].op = "create"
    /\ modelCalls[c].pc = "find"
    /\ LET created == FindById(table[modelCalls[c].tbl], modelCalls[c].got)
       IN  modelCalls' = [modelCalls EXCEPT ![c].pc = IF created = NoRow THEN "threw" ELSE "done",
                                  ![c].result = created]
    /\ UNCHANGED <<table, lastInsertRowid, pager, adapterVars, lastCall, txn, providerVars, boot, libVars>>

\* UPDATE t SET col = ? WHERE pk = ? that changes every row, matched or not.
UpdateApply_Upsert(tbl, id, v) == [tbl EXCEPT ![id] = v]

\* UPDATE t SET col = ? WHERE pk = ?
UpdateApply(tbl, id, v) == IF tbl[id] # Absent THEN [tbl EXCEPT ![id] = v] ELSE tbl

\* update, line 137: await executeStatement(UPDATE ...).
UpdateWrite(c) ==
    \E t \in TableNames, id \in Ids, v \in Values :
        /\ modelCalls[c].pc = "idle"
        /\ table' = [table EXCEPT ![t] = UpdateApply(table[t], id, v)]
        /\ modelCalls' = [modelCalls EXCEPT ![c] =
               [IdleCall EXCEPT !.op = "update", !.pc = "find", !.tbl = t, !.id = id,
                                !.data = v]]
        /\ UNCHANGED <<lastInsertRowid, pager, adapterVars, lastCall, txn, providerVars, boot, libVars>>

\* update, line 139: return this.findById(id).
UpdateFind(c) ==
    /\ modelCalls[c].op = "update"
    /\ modelCalls[c].pc = "find"
    /\ modelCalls' = [modelCalls EXCEPT ![c].pc = "done",
                         ![c].result = FindById(table[modelCalls[c].tbl], modelCalls[c].id)]
    /\ UNCHANGED <<table, lastInsertRowid, pager, adapterVars, lastCall, txn, providerVars, boot, libVars>>

\* executeStatement, lines 294-313: the rowsAffected it reports.
RowsAffected(withParams, modify, changes) ==
    IF withParams THEN (IF modify THEN changes ELSE 0)
    ELSE (IF modify THEN -1 ELSE 0)

\* delete, lines 158-160: executeStatement(DELETE ..., [id]); rowsAffected > 0.
Delete(c) ==
    \E t \in TableNames, id \in Ids :
        /\ modelCalls[c].pc = "idle"
        /\ table' = [table EXCEPT ![t][id] = Absent]
        /\ modelCalls' = [modelCalls EXCEPT ![c] =
               [IdleCall EXCEPT !.op = "delete", !.pc = "done", !.tbl = t, !.id = id,
                   !.got = RowsAffected(TRUE, TRUE, IF table[t][id] # Absent THEN 1 ELSE 0)]]
        /\ UNCHANGED <<lastInsertRowid, pager, adapterVars, lastCall, txn, providerVars, boot, libVars>>

(***************************************************************************)
(* findPaginated(cursor, limit, cursorField):                              *)
(*   SELECT * FROM t [WHERE cursorField > ?] ORDER BY cursorField ASC      *)
(*   LIMIT ?, the WHERE clause being added only `if (cursor)`.             *)
(***************************************************************************)
Rank(v) == CASE v = "" -> 0 [] v = "a" -> 1 [] v = "b" -> 2

\* JavaScript truthiness of the cursor argument: undefined and "" are falsy.
Truthy(cursor) == cursor \notin {Absent, ""}

Matching(tbl, cursor) ==
    {id \in RowIds(tbl) : Truthy(cursor) => Rank(tbl[id]) > Rank(cursor)}

\* ORDER BY cursorField ASC; rows with equal values come in rowid order.
First(tbl, S) ==
    CHOOSE i \in S : \A j \in S :
        Rank(tbl[i]) < Rank(tbl[j]) \/ (Rank(tbl[i]) = Rank(tbl[j]) /\ i <= j)

RECURSIVE Ordered(_, _)
Ordered(tbl, S) ==
    IF S = {} THEN <<>>
    ELSE <<First(tbl, S)>> \o Ordered(tbl, S \ {First(tbl, S)})

Limit(seq, n) == SubSeq(seq, 1, IF n < Len(seq) THEN n ELSE Len(seq))

FindPaginated(tbl, cursor, limit) == Limit(Ordered(tbl, Matching(tbl, cursor)), limit)

PageIds(page) == {page[i] : i \in 1..Len(page)}

\* The first call: findPaginated() with no cursor.
PageFirst ==
    \E limit \in Limits :
        /\ ~pager.open
        /\ pager' = [open |-> TRUE, limit |-> limit, cursor |-> Absent,
                     page |-> FindPaginated(table["users"], Absent, limit), seen |-> {}]
        /\ UNCHANGED <<table, lastInsertRowid, modelCalls, adapterVars, lastCall, txn,
                       providerVars, boot, libVars>>

\* The next call, with the cursor-field value of the last row of the page.
PageNext ==
    /\ pager.open
    /\ pager.page # <<>>
    /\ LET cursor == table["users"][pager.page[Len(pager.page)]]
       IN  pager' = [pager EXCEPT !.cursor = cursor,
                                  !.page = FindPaginated(table["users"], cursor, pager.limit),
                                  !.seen = pager.seen \cup PageIds(pager.page)]
    /\ UNCHANGED <<table, lastInsertRowid, modelCalls, adapterVars, lastCall, txn,
                   providerVars, boot, libVars>>

(***************************************************************************)
(* Path strings, character by character as far as the helpers look at      *)
(* them: a string is a sequence of tokens, '/' being one token, "file:"    *)
(* one, and every file or directory name one.                              *)
(***************************************************************************)
Slash == "/"
FileScheme == <<"file:", Slash, Slash>>
MemoryName == ":memory:"

\* FileSystem.documentDirectory: "file:///files/"
DocumentDirectoryText == FileScheme \o <<Slash, "files", Slash>>

\* The directory or location arguments: undefined, relative, absolute and
\* file:// URI, each with and without a trailing '/', and ':memory:'.
NoDirectory == <<>>

DirectoryTexts ==
    {NoDirectory, <<MemoryName>>}
    \cup {<<"data">>, <<"data", Slash>>}
    \cup {<<Slash, "data">>, <<Slash, "data", Slash>>}
    \cup {FileScheme \o <<Slash, "data">>, FileScheme \o <<Slash, "data", Slash>>}

NameTexts == {"a.db", MemoryName}

StartsWith(s, prefix) == Len(s) >= Len(prefix) /\ SubSeq(s, 1, Len(prefix)) = prefix

\* String.replace(pattern, ""): the first occurrence only.
RemoveFirst(s, pattern) ==
    LET n == Len(pattern)
        hits == {i \in 1..(Len(s) - n + 1) : SubSeq(s, i, i + n - 1) = pattern}
    IN  IF hits = {} THEN s
        ELSE LET i == CHOOSE h \in hits : \A g \in hits : h <= g
             IN  SubSeq(s, 1, i - 1) \o SubSeq(s, i + n, Len(s))

\* replace(/\/$/, "")
StripTrailingSlash(s) ==
    IF Len(s) > 0 /\ s[Len(s)] = Slash THEN SubSeq(s, 1, Len(s) - 1) ELSE s

\* createDatabasePath, index.ts lines 40-59
CreateDatabasePathText(name, directory) ==
    IF directory # NoDirectory
       /\ (StartsWith(directory, <<Slash>>) \/ StartsWith(directory, FileScheme))
    THEN RemoveFirst(StripTrailingSlash(RemoveFirst(directory, FileScheme))
                     \o <<Slash, name>>, FileScheme)
    ELSE LET baseDir == IF directory # NoDirectory
                        THEN DocumentDirectoryText \o directory \o <<Slash>>
                        ELSE DocumentDirectoryText \o <<"Spatialite", Slash>>
         IN  RemoveFirst(baseDir \o <<name>>, FileScheme)

\* createDatabasePath, index.ts lines 262-273 and expo-spatialite-room
CreateDatabasePathText_Plain(name, directory) ==
    LET baseDir == IF directory # NoDirectory
                   THEN DocumentDirectoryText \o directory \o <<Slash>>
                   ELSE DocumentDirectoryText
    IN  RemoveFirst(baseDir \o <<name>>, FileScheme)

PathVersions == {"index.ts:40", "index.ts:262", "room"}

CreateDatabasePathOf(version, name, directory) ==
    IF version = "index.ts:40"
    THEN CreateDatabasePathText(name, directory)
    ELSE CreateDatabasePathText_Plain(name, directory)

\* setupDatabaseAsync without an asset source: the text handed to
\* initDatabase by each provider source.
SetupPathText(who, name, location) ==
    IF who = TsxVariant
    THEN (IF location # NoDirectory
          THEN StripTrailingSlash(location) \o <<Slash, name>>
          ELSE CreateDatabasePathText(name, NoDirectory))
    ELSE (IF location = <<MemoryName>>
          THEN <<MemoryName>>
          ELSE CreateDatabasePathText(name, location))

(***************************************************************************)
(* QueryBuilder (part_005): the private fields the fluent calls accumulate *)
(* and the SQL text and parameter list execute() hands to executeQuery.    *)
(* The SQL text is kept as the sequence of its words.                      *)
(***************************************************************************)
MaxWheres == 2
MaxJoins == 1

Unset == "undefined"
BuilderTable == "users"
BuilderFields == {"id", "name"}
BuilderValues == {"a", "b"}
BuilderNumbers == {"0", "5"}

NewBuilder ==
    [selectFields |-> <<"*">>, whereConditions |-> <<>>, joinClauses |-> <<>>,
     limitValue |-> Unset, offsetValue |-> Unset, orderByField |-> Unset,
     orderByDirection |-> "ASC", pc |-> "building", sql |-> <<>>, params |-> <<>>]

RECURSIVE Flatten(_)
Flatten(seqs) == IF seqs = <<>> THEN <<>> ELSE Head(seqs) \o Flatten(Tail(seqs))

\* Array.join(separator) over word groups
RECURSIVE JoinWith(_, _)
JoinWith(groups, separator) ==
    IF groups = <<>> THEN <<>>
    ELSE IF Len(groups) = 1 THEN Head(groups)
    ELSE Head(groups) \o separator \o JoinWith(Tail(groups), separator)

\* execute(), lines 60-84: the query text
Materialize(b) ==
    <<"SELECT">> \o b.selectFields \o <<"FROM", BuilderTable>>
    \o Flatten(b.joinClauses)
    \o (IF Len(b.whereConditions) > 0
        THEN <<"WHERE">>
             \o JoinWith([i \in 1..Len(b.whereConditions) |->
                            <<b.whereConditions[i].field, b.whereConditions[i].operator, "?">>],
                         <<"AND">>)
        ELSE <<>>)
    \o (IF b.orderByField # Unset
        THEN <<"ORDER BY", b.orderByField, b.orderByDirection>> ELSE <<>>)
    \o (IF b.limitValue # Unset
        THEN <<"LIMIT", b.limitValue>>
             \o (IF b.offsetValue # Unset THEN <<"OFFSET", b.offsetValue>> ELSE <<>>)
        ELSE <<>>)

\* execute(), line 72: the bound parameters
BoundParams(b) == [i \in 1..Len(b.whereConditions) |-> b.whereConditions[i].value]

\* query and params are locals of execute(): a later fluent call finds the
\* fields as they were and nothing of the text emitted before.
Building(b) == [b EXCEPT !.pc = "building", !.sql = <<>>, !.params = <<>>]

BuilderStep(b) ==
    /\ builder' = b
    /\ UNCHANGED <<adapterVars, lastCall, txn, providerVars, modelVars, pathLog,
                   constructError, manager>>

BuilderSelect ==
    \E f \in BuilderFields : BuilderStep([Building(builder) EXCEPT !.selectFields = <<f>>])

BuilderWhere ==
    \E f \in BuilderFields, v \in BuilderValues :
        /\ Len(builder.whereConditions) < MaxWheres
        /\ BuilderStep([Building(builder) EXCEPT !.whereConditions =
               Append(@, [field |-> f, operator |-> "=", value |-> v])])

BuilderLimit ==
    \E n \in BuilderNumbers : BuilderStep([Building(builder) EXCEPT !.limitValue = n])

BuilderOffset ==
    \E n \in BuilderNumbers : BuilderStep([Building(builder) EXCEPT !.offsetValue = n])

BuilderOrderBy ==
    \E f \in BuilderFields, d \in {"ASC", "DESC"} :
        BuilderStep([Building(builder) EXCEPT !.orderByField = f, !.orderByDirection = d])

BuilderJoin ==
    \E kind \in {"JOIN", "LEFT JOIN", "INNER JOIN"} :
        /\ Len(builder.joinClauses) < MaxJoins
        /\ BuilderStep([Building(builder) EXCEPT !.joinClauses =
               Append(@, <<kind, "profiles", "ON", "users.id = profiles.user_id">>)])

BuilderExecute ==
    BuilderStep([builder EXCEPT !.pc = "executed", !.sql = Materialize(builder),
                                !.params = BoundParams(builder)])

(***************************************************************************)
(* SpatialiteManager (src/lib/spatialiteManager.ts): the singleton's       *)
(* isInitialized flag and the calls in flight on it.  JavaScript runs each *)
(* call up to its next await of a native promise; the replies of the       *)
(* native module arrive in any order of the calls' continuations.  An op   *)
(* is at                                                                   *)
(*   init       : initialize() awaits ExpoSpatialiteRoom.initDatabase      *)
(*   tableQuery : findWardsWithinRadius awaits the query of tableExists    *)
(*   query      : the call awaits its own executeQuery                     *)
(*   done / failed : the call's promise is fulfilled / rejected            *)
(* initCalls and initFailures count the native initDatabase calls issued,  *)
(* and those that failed, since the latest call of close().                *)
(***************************************************************************)
MaxOps == 2

OpIds == 1..MaxOps

ManagerOps == {"tableExists", "findWardsWithinRadius"}

NoOp == [kind |-> "none", pc |-> "idle"]

NewManager ==
    [isInitialized |-> FALSE, initCalls |-> 0, initFailures |-> 0, closing |-> FALSE,
     ops |-> [k \in OpIds |-> NoOp]]

\* Where a call stands once initialize() has returned true: tableExists has
\* issued its query; findWardsWithinRadius has called tableExists, whose own
\* initialize() finds the flag set, and awaits that query.
AfterInitialize(kind) == IF kind = "tableExists" THEN "query" ELSE "tableQuery"

\* initialize(), lines 47-51: whether it calls the native initDatabase.
Initialize(m) == ~m.isInitialized

ManagerStep(m) ==
    /\ manager' = m
    /\ UNCHANGED <<adapterVars, lastCall, txn, providerVars, modelVars, pathLog,
                   constructError, builder>>

\* A caller starts tableExists or findWardsWithinRadius: the call runs up to
\* its first await of a native promise.
ManagerCall ==
    \E k \in OpIds, kind \in ManagerOps :
        /\ manager.ops[k] = NoOp
        /\ \A j \in OpIds : j < k => manager.ops[j] # NoOp
        /\ IF Initialize(manager)
           THEN ManagerStep([manager EXCEPT !.initCalls = @ + 1,
                                            !.ops[k] = [kind |-> kind, pc |-> "init"]])
           ELSE ManagerStep([manager EXCEPT
                               !.ops[k] = [kind |-> kind, pc |-> AfterInitialize(kind)]])

\* The native initDatabase of a call answers.  On success initialize() sets
\* the flag and the call goes on; on failure initialize() rethrows, which
\* tableExists turns into false and findWardsWithinRadius rethrows.
ManagerInitSettle ==
    \E k \in OpIds, ok \in BOOLEAN :
        /\ manager.ops[k].pc = "init"
        /\ IF ok
           THEN ManagerStep([manager EXCEPT !.isInitialized = TRUE,
                               !.ops[k].pc = AfterInitialize(manager.ops[k].kind)])
           ELSE ManagerStep([manager EXCEPT !.initFailures = @ + 1,
                               !.ops[k].pc = IF manager.ops[k].kind = "tableExists"
                                             THEN "done" ELSE "failed"])

\* An executeQuery of a call answers; found says that the query of
\* tableExists returned a row.
ManagerQuerySettle ==
    \E k \in OpIds, ok \in BOOLEAN, found \in BOOLEAN :
        /\ manager.ops[k].pc \in {"tableQuery", "query"}
        /\ found => ok
        /\ IF manager.ops[k].pc = "tableQuery"
           THEN ManagerStep([manager EXCEPT !.ops[k].pc = IF found THEN "query" ELSE "failed"])
           ELSE ManagerStep([manager EXCEPT !.ops[k].pc =
                               IF manager.ops[k].kind = "tableExists" THEN "done"
                               ELSE IF ok THEN "done" ELSE "failed"])

\* close() is called: closeDatabase is issued.
ManagerClose ==
    /\ ~manager.closing
    /\ ManagerStep([manager EXCEPT !.closing = TRUE, !.initCalls = 0, !.initFailures = 0])

\* closeDatabase answers: on success the flag is cleared.
ManagerCloseSettle ==
    \E ok \in BOOLEAN :
        /\ manager.closing
        /\ ManagerStep([manager EXCEPT !.closing = FALSE,
                                       !.isInitialized = IF ok THEN FALSE ELSE @])

NoPathCall == [fn |-> "none", by |-> "none", name |-> "", directory |-> NoDirectory,
               text |-> <<>>]

PathCall(fn, by, name, directory, text) ==
    [fn |-> fn, by |-> by, name |-> name, directory |-> directory, text |-> text]

LibIdle ==
    /\ pathLog = [first |-> NoPathCall, last |-> NoPathCall]
    /\ constructError = FALSE
    /\ builder = NewBuilder
    /\ manager = NewManager

Logged(call) ==
    pathLog' = [first |-> IF pathLog.first = NoPathCall THEN call ELSE pathLog.first,
                last |-> call]

\* A call of createDatabasePath.
CallCreateDatabasePath ==
    \E version \in PathVersions, name \in NameTexts, directory \in DirectoryTexts :
        /\ Logged(PathCall("createDatabasePath", version, name, directory,
                           CreateDatabasePathOf(version, name, directory)))
        /\ UNCHANGED <<adapterVars, lastCall, txn, providerVars, modelVars, constructError, builder,
                     manager>>

\* A provider mounted without an asset source: setupDatabaseAsync up to its
\* initDatabase(dbPath) call.
SetupWithoutAsset ==
    \E who \in Variants, location \in DirectoryTexts :
        /\ Logged(PathCall("initDatabase", who, "a.db", location,
                           SetupPathText(who, "a.db", location)))
        /\ UNCHANGED <<adapterVars, lastCall, txn, providerVars, modelVars, constructError, builder,
                     manager>>

(***************************************************************************)
(* The adapter called directly, one native call at a time.                 *)
(***************************************************************************)
vars == <<database, databasePath, openConns, sess, durable, files, metaInits, lastCall, txn,
          providerVars, modelVars, libVars>>

AdapterInit ==
    /\ database = NoConnection
    /\ databasePath = NoPath
    /\ openConns = {}
    /\ sess = NoSession
    /\ durable = [f \in Files |-> {}]
    /\ files = {}
    /\ metaInits = [f \in Files |-> 0]
    /\ lastCall = NoCall

Init ==
    /\ AdapterInit
    /\ txn = [i \in TxIds |-> IdleTx]
    /\ ProviderIdle
    /\ ModelIdle
    /\ LibIdle

AdapterPaths == {MemoryPath, "a.db"}

CallInitDatabase ==
    \E p \in AdapterPaths, f \in Faults, rec \in BOOLEAN :
        /\ Cardinality(openConns) < MaxConns
        /\ f = "mkdirs" => p # MemoryPath
        /\ rec => p \in files
        /\ InitDatabase(p, f, rec)
        /\ UNCHANGED <<txn, providerVars, modelVars, libVars>>

CallExecuteQuery ==
    \E s \in StmtsOver(Rows) : s.kw \notin TxControl /\ ExecuteQuery(s) /\ UNCHANGED <<txn, providerVars, modelVars, libVars>>

\* Parameters are bound only to a statement with placeholders (hasPlaceholders):
\* here the statements that name a row.
CallExecuteStatement ==
    \E s \in StmtsOver(Rows), wp \in BOOLEAN :
        /\ s.kw = "BEGIN" => Len(sess.stack) < MaxTxDepth
        /\ wp => s.kw \in {"INSERT", "DELETE"}
        /\ ExecuteStatement(s, wp)
        /\ UNCHANGED <<txn, providerVars, modelVars, libVars>>

CallExecutePragmaQuery ==
    \E s \in StmtsOver(Rows) : s.kw = "PRAGMA" /\ ExecutePragmaQuery(s) /\ UNCHANGED <<txn, providerVars, modelVars, libVars>>

CallCloseDatabase == CloseDatabase /\ UNCHANGED <<txn, providerVars, modelVars, libVars>>

Next ==
    \/ CallInitDatabase
    \/ CallExecuteQuery
    \/ CallExecuteStatement
    \/ CallExecutePragmaQuery
    \/ CallCloseDatabase

Spec == Init /\ [][Next]_vars

(***************************************************************************)
(* Drizzle transactions and outside callers on an opened database.         *)
(***************************************************************************)
DrizzleInit ==
    /\ database = 1
    /\ databasePath = "a.db"
    /\ openConns = {1}
    /\ sess = [stack |-> <<>>, base |-> {}, view |-> {}, file |-> "a.db"]
    /\ durable = [f \in Files |-> {}]
    /\ files = {"a.db"}
    /\ metaInits = [f \in Files |-> IF f = "a.db" THEN 1 ELSE 0]
    /\ lastCall = [op |-> "initDatabase", stmt |-> NoStmt, ok |-> TRUE, err |-> "none",
                   count |-> 0]
    /\ txn = [i \in TxIds |-> IdleTx]
    /\ ProviderIdle
    /\ ModelIdle
    /\ LibIdle

DrizzleNext ==
    \/ \E i \in TxIds : TxBegin(i)
    \/ \E i \in TxIds : FnWrite(i)
    \/ \E i \in TxIds : FnResolve(i)
    \/ \E i \in TxIds : FnThrow(i)
    \/ \E i \in TxIds : TxCommit(i)
    \/ \E i \in TxIds : TxRollback(i)
    \/ OutsideStatement
    \/ OutsideClose
    \/ OutsideInit

SpecDrizzle == DrizzleInit /\ [][DrizzleNext]_vars

(***************************************************************************)
(* The provider mounted, re-rendered and unmounted over the native module. *)
(***************************************************************************)
ProviderNext ==
    \/ Mount
    \/ PropsChange
    \/ Unmount
    \/ NativeExec
    \/ \E k \in SetupIds : Resume(k)
    \/ \E k \in SetupIds : DownloadSettle(k)
    \/ \E k \in SetupIds : OnInitSettle(k)

SpecProvider == Init /\ [][ProviderNext]_vars

(***************************************************************************)
(* The adapter with asset imports between its other calls.                 *)
(***************************************************************************)
CallImportAssetDatabaseAsync ==
    \E p \in Files, forceOverwrite \in BOOLEAN, fault \in BOOLEAN :
        /\ ImportAssetDatabaseAsync(p, forceOverwrite, fault)
        /\ UNCHANGED <<txn, providerVars, modelVars, libVars>>

ImportNext ==
    \/ CallImportAssetDatabaseAsync
    \/ CallInitDatabase
    \/ CallCloseDatabase

SpecImport == Init /\ [][ImportNext]_vars

(***************************************************************************)
(* An asset import followed by initDatabase, for each caller.              *)
(***************************************************************************)
BootNext ==
    \/ SetupImport
    \/ BootstrapImport
    \/ InitAfterImport

SpecBoot == Init /\ [][BootNext]_vars

(***************************************************************************)
(* Statements of every routing class sent down both routes of an opened    *)
(* database.                                                               *)
(***************************************************************************)
RouteQuery ==
    \E s \in RoutedStmts :
        /\ s.kw \notin TxControl
        /\ ExecuteQuery(s)
        /\ UNCHANGED <<txn, providerVars, modelVars, libVars>>

RouteStatement ==
    \E s \in RoutedStmts, wp \in BOOLEAN :
        /\ s.kw = "BEGIN" => Len(sess.stack) < MaxTxDepth
        /\ wp => s.row # 0
        /\ ExecuteStatement(s, wp)
        /\ UNCHANGED <<txn, providerVars, modelVars, libVars>>

RoutingNext ==
    \/ RouteQuery
    \/ RouteStatement

SpecRouting == DrizzleInit /\ [][RoutingNext]_vars

(***************************************************************************)
(* BaseModel calls of concurrent callers on an opened database.            *)
(***************************************************************************)
ModelNext ==
    \/ \E c \in CallerIds : CreateInsert(c)
    \/ \E c \in CallerIds : CreateLastId(c)
    \/ \E c \in CallerIds : CreateFind(c)
    \/ \E c \in CallerIds : UpdateWrite(c)
    \/ \E c \in CallerIds : UpdateFind(c)
    \/ \E c \in CallerIds : Delete(c)

SpecModel == DrizzleInit /\ [][ModelNext]_vars

(***************************************************************************)
(* A findPaginated traversal over a fixed snapshot of the users table.     *)
(***************************************************************************)
PaginateInit ==
    /\ database = 1
    /\ databasePath = "a.db"
    /\ openConns = {1}
    /\ sess = [stack |-> <<>>, base |-> {}, view |-> {}, file |-> "a.db"]
    /\ durable = [f \in Files |-> {}]
    /\ files = {"a.db"}
    /\ metaInits = [f \in Files |-> IF f = "a.db" THEN 1 ELSE 0]
    /\ lastCall = NoCall
    /\ txn = [i \in TxIds |-> IdleTx]
    /\ ProviderIdle
    /\ \E snapshot \in [Ids -> Values \cup {Absent}] :
           table = [t \in TableNames |-> IF t = "users" THEN snapshot ELSE EmptyTable]
    /\ lastInsertRowid = 0
    /\ modelCalls = [c \in CallerIds |-> IdleCall]
    /\ pager = NoPager
    /\ boot = NoBoot
    /\ LibIdle

PaginateNext ==
    \/ PageFirst
    \/ PageNext

SpecPaginate == PaginateInit /\ [][PaginateNext]_vars

(***************************************************************************)
(* The path helper and the providers' path computation, called in any      *)
(* order.                                                                  *)
(***************************************************************************)
PathNext ==
    \/ CallCreateDatabasePath
    \/ SetupWithoutAsset

SpecPath == Init /\ [][PathNext]_vars

(***************************************************************************)
(* A QueryBuilder used through its fluent calls.                           *)
(***************************************************************************)
BuilderNext ==
    \/ BuilderSelect
    \/ BuilderWhere
    \/ BuilderLimit
    \/ BuilderOffset
    \/ BuilderOrderBy
    \/ BuilderJoin
    \/ BuilderExecute

SpecBuilder == Init /\ [][BuilderNext]_vars

ManagerNext ==
    \/ ManagerCall
    \/ ManagerInitSettle
    \/ ManagerQuerySettle
    \/ ManagerClose
    \/ ManagerCloseSettle

SpecManager == Init /\ [][ManagerNext]_vars

(***************************************************************************)
(* Claims about the native adapter, checked under Spec, where every step   *)
(* is one native call and lastCall' is its outcome.                        *)
(***************************************************************************)
ExecOps == {"executeQuery", "executeStatement", "executePragmaQuery"}

\* C1: executeQuery, executeStatement and executePragmaQuery called while no
\* connection is held fail with the 'Database not initialized' error, never
\* succeed, and leave the adapter state unchanged.
C1_NoConnectionRejected ==
    [][(database = NoConnection /\ lastCall'.op \in ExecOps)
         => (/\ ~lastCall'.ok
             /\ lastCall'.err = NotInitialized
             /\ UNCHANGED adapterVars)]_vars

\* C1 witness: a pragma query rejected after a database had been opened and
\* closed again.
C1_Witness ==
    /\ database = NoConnection
    /\ files # {}
    /\ lastCall.op = "executePragmaQuery"
    /\ lastCall.err = NotInitialized

\* C2: after any sequence of initDatabase and closeDatabase calls at most
\* one engine connection opened by the adapter is still unclosed (initDatabase
\* on a held connection is refused instead of replacing the handle).
C2_AtMostOneUnclosed == Cardinality(openConns) <= 1

\* A statement the engine accepts on the given route and session.
WellFormed(op, stmt, s) ==
    /\ ~stmt.bad
    /\ stmt.kw \notin TxControl
    /\ op = "executeQuery" => GetStatementType(stmt) # "MODIFY"
    /\ op = "executeStatement" => GetStatementType(stmt) # "QUERY"
    /\ stmt.kw = "INSERT" => stmt.row \notin s.view

\* C7: a failing executeQuery or executeStatement leaves the held connection
\* and its path unchanged, the handle stays open, and a well-formed call on a
\* held handle succeeds whatever failed before it.
C7_FailureKeepsConnection ==
    [][/\ (lastCall'.op \in {"executeQuery", "executeStatement"} /\ ~lastCall'.ok)
            => /\ database' = database
               /\ databasePath' = databasePath
               /\ openConns' = openConns
               /\ database' # NoConnection => database' \in openConns'
       /\ (/\ lastCall'.op \in {"executeQuery", "executeStatement"}
           /\ database # NoConnection
           /\ WellFormed(lastCall'.op, lastCall'.stmt, sess))
            => lastCall'.ok]_vars

\* C7 witness: a statement failed in the engine on a held connection.
C7_Witness ==
    /\ database # NoConnection
    /\ lastCall.op = "executeStatement"
    /\ lastCall.err = EngineError
    /\ lastCall.stmt.kw = "INSERT"

Settled(t) == t.pc \in {"resolved", "rejected"}

\* C9 as claimed: BEGIN precedes fn; when fn resolves, transaction() issues
\* COMMIT once, no ROLLBACK, and resolves; when fn throws it issues ROLLBACK,
\* no COMMIT, and rejects with fn's error.
C9_CommitOrRollback ==
    \A i \in TxIds :
        LET t == txn[i]
        IN  /\ t.fn # "none" => t.begins = 1
            /\ (Settled(t) /\ t.fn = "resolved")
                 => (t.pc = "resolved" /\ t.commits = 1 /\ t.rollbacks = 0)
            /\ (Settled(t) /\ t.fn = "threw")
                 => (t.rollbacks = 1 /\ t.commits = 0 /\ t.err = "fn")

\* C9 amended: BEGIN precedes fn.  When fn resolves COMMIT is issued once; if
\* it succeeds no ROLLBACK is issued and transaction() resolves, if it rejects
\* ROLLBACK is issued once and transaction() rejects.  When fn throws ROLLBACK
\* is issued once and COMMIT never.  A rejection carries the caught error
\* (fn's or COMMIT's) unless the ROLLBACK call itself rejected, and then the
\* ROLLBACK's error.
C9_TransactionProtocol ==
    \A i \in TxIds :
        LET t == txn[i]
        IN  /\ t.fn # "none" => t.begins = 1
            /\ t.pc = "resolved"
                 => (t.fn = "resolved" /\ t.commits = 1 /\ t.rollbacks = 0)
            /\ (t.pc = "rejected" /\ t.fn = "resolved")
                 => (t.commits = 1 /\ t.rollbacks = 1 /\ t.caught = "commit")
            /\ t.fn = "threw" => (t.commits = 0 /\ t.caught = "fn")
            /\ (t.pc = "rejected" /\ t.fn = "threw") => t.rollbacks = 1
            /\ (t.pc = "rejected" /\ t.fn # "none")
                 => t.err = (IF t.rollbackFailed THEN "rollback" ELSE t.caught)

\* C9 witness: fn resolved, COMMIT rejected, ROLLBACK was issued.
C9_Witness ==
    \E i \in TxIds :
        /\ txn[i].pc = "rejected"
        /\ txn[i].fn = "resolved"
        /\ txn[i].wrote # {}
        /\ txn[i].rollbacks = 1

\* C10: the writes of fn are all-or-nothing: when transaction() resolves all
\* of them are committed, when it rejects none of them is visible.
C10_AllOrNothing ==
    [][\A i \in TxIds :
         /\ (txn[i].pc # "resolved" /\ txn'[i].pc = "resolved")
              => txn'[i].wrote \subseteq durable'["a.db"]
         /\ (txn[i].pc # "rejected" /\ txn'[i].pc = "rejected")
              => txn'[i].wrote \cap (sess'.view \cup durable'["a.db"]) = {}]_vars

(***************************************************************************)
(* Claims about the session provider, checked under SpecProvider.          *)
(***************************************************************************)
\* C3: while a non-suspense provider is mounted and every setup was started
\* by its effects (the configuration changed, the provider did not remount),
\* at most one connection opened for it is unclosed.
C3_OneConnectionPerProvider ==
    (/\ mounted
     /\ ~useSuspense
     /\ \A k \in SetupIds : setups[k].pc # "none" => setups[k].live)
        => Cardinality(openConns) <= 1

\* C4: the provider renders its children only when the setup started for the
\* mounted configuration (initDatabase and the onInit hook) has resolved.
C4_ReadyOnlyAfterSetup ==
    ChildrenRendered => (CurrentSetup # 0 /\ setups[CurrentSetup].pc = "done")

\* C5: once the non-suspense provider is unmounted and its state is reset
\* (databaseRef cleared, loading set), no closeDatabase issued by a teardown
\* is still waiting to run.
C5_ResetAfterClose ==
    (~mounted /\ ~useSuspense /\ databaseRef = NoPath /\ loading)
        => \A i \in 1..Len(nativeQueue) : nativeQueue[i] # TeardownCall

\* C6: when the setup started for the mounted configuration has rejected,
\* the provider does not render its children, with or without onError.
C6_FailedSetupBlocksChildren ==
    (mounted /\ CurrentSetup # 0 /\ setups[CurrentSetup].pc = "failed")
        => ~ChildrenRendered

InTransaction(t) == t.pc \in {"fn", "commit", "rollback"}

\* C11: while a transaction(fn) call is between its BEGIN and its COMMIT or
\* ROLLBACK, no statement of a caller outside that transaction is executed on
\* the connection.
C11_TransactionIsolated ==
    [][(\E i \in TxIds : InTransaction(txn[i])) => ~OutsideStatement]_vars


(***************************************************************************)
(* Claims about the data-access layer, checked under SpecModel and         *)
(* SpecPaginate.                                                           *)
(***************************************************************************)
Finished(c, op) == modelCalls[c].op = op /\ modelCalls[c].pc \in {"done", "threw"}

\* C12: BaseModel.create returns the row that this very call inserted, for
\* every interleaving of its three steps with other callers' creates: it
\* never throws and never returns another call's row.
C12_CreateReturnsOwnRow ==
    \A c \in CallerIds :
        Finished(c, "create") =>
            /\ modelCalls[c].pc = "done"
            /\ modelCalls[c].got = modelCalls[c].id
            /\ modelCalls[c].result.id = modelCalls[c].id


\* C13: over a fixed snapshot of the table, repeated findPaginated calls that
\* pass the cursor-field value of the previous page's last row never return
\* a row that an earlier page already returned.
C13_NoRowInTwoPages == PageIds(pager.page) \cap pager.seen = {}


\* C14: update(id, data) on an id that has no row leaves the table as it was
\* and returns null without throwing.
C14_UpdateOfMissingRow ==
    [][\A c \in CallerIds :
          /\ (/\ modelCalls[c].pc = "idle"
              /\ modelCalls'[c].op = "update"
              /\ table[modelCalls'[c].tbl][modelCalls'[c].id] = Absent)
                 => table' = table
          /\ (/\ modelCalls[c].op = "update"
              /\ modelCalls[c].pc = "find"
              /\ modelCalls'[c].pc # "find"
              /\ table[modelCalls[c].tbl][modelCalls[c].id] = Absent)
                 => (modelCalls'[c].pc = "done" /\ modelCalls'[c].result = NoRow)]_vars

C14_Witness ==
    \E c \in CallerIds :
        /\ modelCalls[c].op = "update"
        /\ modelCalls[c].pc = "done"
        /\ modelCalls[c].result = NoRow
        /\ table[modelCalls[c].tbl][modelCalls[c].id] = Absent


(***************************************************************************)
(* Claims about statement routing and row counts, checked under            *)
(* SpecRouting.                                                            *)
(***************************************************************************)
WriteText(stmt) == stmt.kw \in {"INSERT", "UPDATE", "DELETE"}

ReadText(stmt) == stmt.kw \in {"SELECT", "WITH"} \/ (stmt.kw = "PRAGMA" /\ ~stmt.eq)

C16_SpatialSetupAccepted ==
    [][(/\ database # NoConnection
        /\ lastCall'.op = "executeStatement"
        /\ lastCall'.stmt = SpatialSetupCall)
          => lastCall'.ok]_vars


\* The number of rows a statement changes on a session.
RowsChanged(stmt, s) ==
    IF stmt.kw = "INSERT" THEN 1 ELSE IF stmt.row \in s.view THEN 1 ELSE 0

\* C17: every successful INSERT, UPDATE or DELETE, with or without bound
\* parameters, reports rowsAffected equal to the number of rows the statement
\* changed.
C17_RowsAffectedIsRowsChanged ==
    [][(/\ lastCall'.op = "executeStatement"
        /\ lastCall'.ok
        /\ WriteText(lastCall'.stmt))
          => lastCall'.count = RowsChanged(lastCall'.stmt, sess)]_vars


(***************************************************************************)
(* Claims about spatial metadata and asset import.                         *)
(***************************************************************************)
\* C18: across initDatabase/closeDatabase cycles on a database file the
\* spatial metadata is initialized exactly once, when the file is created,
\* and never again on a file that has the catalog; initDatabase on a file
\* that has the metadata fails only for a reason other than the catalog
\* being there.
C18_MetadataInitOnce ==
    /\ \A f \in Files : metaInits[f] = IF f \in files THEN 1 ELSE 0
    /\ (lastCall.op = "initDatabase" /\ ~lastCall.ok)
          => lastCall.err \in Faults \ {"none"}

C18_Witness ==
    /\ lastCall.op = "initDatabase"
    /\ lastCall.ok
    /\ databasePath = "a.db"
    /\ durable["a.db"] # {}
    /\ metaInits["a.db"] = 1


\* C19: importAssetDatabaseAsync with forceOverwrite = false on a destination
\* that exists reports success and leaves every file as it was, so a second
\* import yields the content of the first and both succeed.
C19_ImportIdempotent ==
    [][\A p \in Files, fault \in BOOLEAN :
          (p \in files /\ ImportAssetDatabaseAsync(p, FALSE, fault))
             => (lastCall'.ok /\ durable' = durable /\ files' = files)]_vars

C19_Witness ==
    /\ lastCall.op = "importAssetDatabaseAsync"
    /\ lastCall.ok
    /\ "a.db" \in files
    /\ durable["a.db"] # AssetRows


\* C20: for every database name and location or directory used with an asset
\* source, the path handed to initDatabase after the import names the file the
\* import wrote, in the provider's setup and in the app's bootstrap alike.
C20_InitOpensImportedFile == boot.pc = "opened" => boot.opened = boot.imported


(***************************************************************************)
(* Claims about path resolution, checked under SpecPath.                   *)
(***************************************************************************)
DoubledSlash(s) == \E i \in 1..(Len(s) - 1) : s[i] = Slash /\ s[i + 1] = Slash

TrailingSlash(s) == Len(s) > 0 /\ s[Len(s)] = Slash

SameArguments(a, b) == a.fn = b.fn /\ a.by = b.by /\ a.name = b.name /\ a.directory = b.directory

\* C21: createDatabasePath(name, dir) returns the same string for the same
\* arguments whatever was called in between, and the string has no doubled
\* slash and no trailing slash, whether or not dir ends with '/'.
C21_PathPureAndClean ==
    pathLog.last.fn = "createDatabasePath"
       => /\ SameArguments(pathLog.first, pathLog.last)
                => pathLog.first.text = pathLog.last.text
          /\ ~DoubledSlash(pathLog.last.text)
          /\ ~TrailingSlash(pathLog.last.text)


\* C22: the ':memory:' sentinel bypasses path resolution: createDatabasePath
\* returns it unchanged, and a provider mounted with location ':memory:' and
\* no asset source hands exactly ':memory:' to initDatabase.
C22_MemorySentinelUnchanged ==
    /\ (pathLog.last.fn = "createDatabasePath" /\ pathLog.last.name = MemoryName)
          => pathLog.last.text = <<MemoryName>>
    /\ (pathLog.last.fn = "initDatabase" /\ pathLog.last.directory = <<MemoryName>>)
          => pathLog.last.text = <<MemoryName>>


(***************************************************************************)
(* Further claims about the native adapter, checked under Spec.            *)
(***************************************************************************)
\* C23: closeDatabase succeeds when no connection is open, and however often
\* it is called in a row the adapter is in the same no-connection state
\* (database and path cleared) as after one call.
C23_CloseIdempotent ==
    [][/\ lastCall'.op = "closeDatabase"
            => /\ lastCall'.ok
               /\ database' = NoConnection
               /\ databasePath' = NoPath
       /\ (lastCall.op = "closeDatabase" /\ lastCall'.op = "closeDatabase")
            => UNCHANGED adapterVars]_vars

C23_Witness ==
    /\ lastCall.op = "closeDatabase"
    /\ lastCall.ok
    /\ database = NoConnection
    /\ files = {}
    /\ openConns = {}


(***************************************************************************)
(* Further claims about the session provider, checked under SpecProvider.  *)
(***************************************************************************)
\* C24: a provider given both onError and useSuspense never mounts: its
\* construction fails at once, before any asset import, initDatabase or
\* onInit call is issued.
C24_OnErrorExcludesSuspense ==
    [][/\ mounted' => ~(onError' /\ useSuspense')
       /\ (constructError' /\ ~constructError)
            => UNCHANGED <<providerVars, adapterVars, lastCall>>]_vars

C24_Witness == constructError /\ ~mounted /\ nativeQueue = <<>>


(***************************************************************************)
(* Claims about QueryBuilder, checked under SpecBuilder.                   *)
(***************************************************************************)
Occurrences(seq, word) == Cardinality({i \in 1..Len(seq) : seq[i] = word})

\* C25: execute() emits one SQL text in which every where() call contributes
\* exactly one '?' joined with AND, the bound parameters are the where values
\* in call order, and every accumulated clause (select, joins, order, limit,
\* offset) appears, an offset set without a limit included.
C25_EveryClauseEmitted ==
    builder.pc = "executed"
       => /\ Occurrences(builder.sql, "?") = Len(builder.whereConditions)
          /\ Len(builder.whereConditions) > 0
                => Occurrences(builder.sql, "AND") = Len(builder.whereConditions) - 1
          /\ builder.params = [i \in 1..Len(builder.whereConditions) |->
                                  builder.whereConditions[i].value]
          /\ Occurrences(builder.sql, builder.selectFields[1]) >= 1
          /\ Occurrences(builder.sql, "ON") = Len(builder.joinClauses)
          /\ Occurrences(builder.sql, "ORDER BY")
                = (IF builder.orderByField # Unset THEN 1 ELSE 0)
          /\ Occurrences(builder.sql, "LIMIT") = (IF builder.limitValue # Unset THEN 1 ELSE 0)
          /\ Occurrences(builder.sql, "OFFSET")
                = (IF builder.offsetValue # Unset THEN 1 ELSE 0)


(***************************************************************************)
(* Claims about the provider's teardown, checked under SpecProvider.       *)
(***************************************************************************)
SetupSettled(k) == setups[k].pc \in {"none", "done", "failed"}

\* C26: once the non-suspense provider is unmounted and every asynchronous
\* operation it started has settled (every setup promise, every issued native
\* call), no connection opened on its behalf is still open, a provider
\* unmounted while its setup was in flight included.
C26_NoConnectionAfterUnmount ==
    (/\ ~mounted
     /\ ~useSuspense
     /\ databaseInstance = NoInstance
     /\ \E k \in SetupIds : setups[k].pc # "none"
     /\ \A k \in SetupIds : SetupSettled(k)
     /\ nativeQueue = <<>>)
        => (openConns = {} /\ database = NoConnection)


(***************************************************************************)
(* Claims about a failing initDatabase, checked under Spec.                *)
(***************************************************************************)
\* C27: when initDatabase throws (the directories cannot be created, the open
\* fails, or the spatialite_version() probe fails), the adapter holds no
\* connection opened by that call: a call that found no connection leaves
\* none, so that the next executeQuery or executeStatement is rejected with
\* 'Database not initialized'.
C27_FailedInitHoldsNothing ==
    [][(lastCall'.op = "initDatabase" /\ ~lastCall'.ok)
          => /\ database' \notin (openConns' \ openConns)
             /\ openConns' = openConns
             /\ database = NoConnection => database' = NoConnection]_vars


(***************************************************************************)
(* Claims about SpatialiteManager, checked under SpecManager.              *)
(***************************************************************************)
\* C28: between two calls of close() the manager calls the native
\* initDatabase at most once (as long as it did not fail), however the
\* manager operations started before the first initialize() resolved
\* interleave.
C28_InitializeOnce ==
    manager.initFailures = 0 => manager.initCalls <= 1


\* C29: a findPaginated traversal that starts with no cursor, passes the
\* cursor-field value of the last row of each page to the next call and stops
\* at the first empty page has visited every row of the table, also when rows
\* share a cursor value or the value is empty.
C29_TraversalVisitsEveryRow ==
    (pager.open /\ pager.page = <<>>) => pager.seen = RowIds(table["users"])


(***************************************************************************)
(* Claims about the metadata of a new database, checked under Spec.        *)
(***************************************************************************)
\* C30: whenever initDatabase succeeds and reports isNewDatabase = true (a
\* new file, a file recreated after locale recovery, or ':memory:'),
\* InitSpatialMetaData has run, once and without failing, on the database
\* that call opened.
C30_NewDatabaseHasMetadata ==
    [][\A p \in AdapterPaths, recovered \in BOOLEAN :
         (InitDatabase(p, "none", recovered) /\ IsNewDatabase(p, recovered))
            => (RunsInitSpatialMetaData(p, recovered) /\ metaInits'[p] = 1)]_vars

====
